---- MODULE Spec2Model ----
(***************************************************************************)
(* Model of texcompiler.py: a Streamlit script that takes a zip archive    *)
(* (uploaded, or named relative to the script directory), extracts it into *)
(* a temporary directory, looks for main.tex, runs pdflatex on it and      *)
(* shows either the PDF or an error.  One execution of the script from top *)
(* to bottom is one behaviour of the model; a run in which the Compile     *)
(* button was pressed with a selected archive is a compile request.        *)
(*                                                                         *)
(* Python strings that the code inspects (the file name typed by the user, *)
(* zip_path, the generated PDF name) are sequences of one-character        *)
(* strings.  Optional values are sequences of length 0 (None) or 1.        *)
(***************************************************************************)
EXTENDS Integers, Sequences, FiniteSets, TLC

VARIABLES
    pc,                 \* position of the script run
    fs,                 \* files on disk: resolved path -> file record
    dirs,               \* temporary directories on disk: name -> set of files
    ntemp,              \* names handed out by tempfile so far
    uploaded_zip,       \* st.file_uploader value (Option of file record)
    zip_filename_input, \* st.text_input value (string)
    button,             \* st.button("Compile LaTeX") value
    zip_path,           \* Option of string
    request,            \* Option of file record: the archive zip_path named when Compile was pressed
    tmp_zip,            \* Option of string: tmp_zip.name of this run
    tmpdirname,         \* Option of string
    bound,              \* names assigned so far inside the compile block
    extracted_files,    \* set of <<dir, name>>
    tex_file_path,      \* Option of <<dir, name>>
    tex_content,        \* Option of decoded text (sequence of bytes)
    child,              \* the pdflatex child process
    process,            \* Option of CompletedProcess
    exc,                \* exception in flight
    msgs,               \* st.* calls made by this run, in order
    pdf_data,           \* Option of bytes
    pdf_filename,       \* Option of string
    log_area,           \* Option of string: value of the "pdflatex Log" area
    invocations         \* subprocess.run calls made by this run

vars == <<pc, fs, dirs, ntemp, uploaded_zip, zip_filename_input, button,
          zip_path, request, tmp_zip, tmpdirname, bound, extracted_files, tex_file_path,
          tex_content, child, process, exc, msgs, pdf_data, pdf_filename,
          log_area, invocations>>

-----------------------------------------------------------------------------
(* Bounds *)

MaxLen == 2         \* length of main.tex in bytes

-----------------------------------------------------------------------------
(* Option values and strings *)

None == <<>>
Some(x) == <<x>>

EndsWith(s, suffix) ==
    /\ Len(s) >= Len(suffix)
    /\ SubSeq(s, Len(s) - Len(suffix) + 1, Len(s)) = suffix

DotZip == <<".", "z", "i", "p">>
DotPdf == <<".", "p", "d", "f">>
Slash == <<"/">>

(* The directory of the script, os.path.dirname(os.path.abspath(__file__)). *)
script_dir == <<"/", "a", "p", "p">>

-----------------------------------------------------------------------------
(* Paths.  A resolved path is the sequence of its components, each a       *)
(* string; <<>> is the root directory.                                     *)

IsAbs(s) == s # <<>> /\ s[1] = "/"

(* os.path.join(a, b) for a without a trailing separator. *)
Join(a, b) == IF IsAbs(b) THEN b ELSE a \o Slash \o b

RECURSIVE SplitAcc(_, _, _)
SplitAcc(s, cur, acc) ==
    IF s = <<>> THEN (IF cur = <<>> THEN acc ELSE Append(acc, cur))
    ELSE IF Head(s) = "/"
         THEN SplitAcc(Tail(s), <<>>, IF cur = <<>> THEN acc ELSE Append(acc, cur))
         ELSE SplitAcc(Tail(s), Append(cur, Head(s)), acc)

Split(s) == SplitAcc(s, <<>>, <<>>)

Directories == { <<>>, << <<"a", "p", "p">> >>, << <<"t", "m", "p">> >> }

NoEntry == << <<"?">> >>

Parent(p) == IF p = <<>> THEN <<>> ELSE SubSeq(p, 1, Len(p) - 1)

(* The operating system's path walk: every component but the last must    *)
(* name an existing directory; "." and ".." are followed.                  *)
RECURSIVE Walk(_, _)
Walk(comps, cur) ==
    IF comps = <<>> THEN cur
    ELSE IF cur \notin Directories THEN NoEntry
    ELSE LET c == Head(comps) IN
         IF c = <<".">> THEN Walk(Tail(comps), cur)
         ELSE IF c = <<".", ".">> THEN Walk(Tail(comps), Parent(cur))
         ELSE Walk(Tail(comps), Append(cur, c))

Resolve(s) == Walk(Split(s), <<>>)

(* os.path.exists *)
Exists(files, s) ==
    LET p == Resolve(s) IN p # NoEntry /\ (p \in DOMAIN files \/ p \in Directories)

RemoveKey(f, k) == [x \in DOMAIN f \ {k} |-> f[x]]

-----------------------------------------------------------------------------
(* Archives.  A file on disk is [kind, tree]: kind "zip" is a readable zip *)
(* container whose entries are tree, "bad" is not a zip container,         *)
(* "unreadable" cannot be opened by this process.  A tree is a set of      *)
(* files [dir, name, data], at most one per <<dir, name>>.                 *)

Bytes == {65, 195, 169}     \* 'A', and the two bytes of U+00E9 in UTF-8

RECURSIVE SeqsUpTo(_, _)
SeqsUpTo(S, n) ==
    IF n = 0 THEN {<<>>}
    ELSE LET shorter == SeqsUpTo(S, n - 1)
         IN shorter \cup {Append(q, b) : q \in {r \in shorter : Len(r) = n - 1}, b \in S}

TexContents == SeqsUpTo(Bytes, MaxLen)

PdfMagic == <<37, 80, 68, 70>>      \* "%PDF", what pdflatex writes
StalePdf == <<37, 80>>              \* a main.pdf shipped inside the archive

File(d, n, x) == [dir |-> d, name |-> n, data |-> x]

RootTexChoices == {{}} \cup {{File(".", "main.tex", x)} : x \in TexContents}
SubTexChoices == {{}} \cup {{File("sub", "main.tex", x)} : x \in TexContents}
OtherFiles == {File(".", "Main.tex", <<65>>), File(".", "main.pdf", StalePdf)}

Trees == {r \cup s \cup o : r \in RootTexChoices, s \in SubTexChoices, o \in SUBSET OtherFiles}

Zip(t) == [kind |-> "zip", tree |-> t]
NotAZip == [kind |-> "bad", tree |-> {}]
Unreadable == [kind |-> "unreadable", tree |-> {}]

Uploads == {Zip(t) : t \in Trees} \cup {NotAZip}

LocalArchives == {Zip({}), Zip({File("sub", "main.tex", <<65>>)}), NotAZip, Unreadable}

(* Files next to the script and one archive outside the script directory. *)
AdjacentZip == << <<"a", "p", "p">>, <<"a", ".", "z", "i", "p">> >>
AdjacentTxt == << <<"a", "p", "p">>, <<"n", ".", "t", "x", "t">> >>
OutsideZip == << <<"x", ".", "z", "i", "p">> >>

FilenameInputs ==
    { <<>>,
      <<"a", ".", "z", "i", "p">>,
      <<"b", ".", "z", "i", "p">>,
      <<"n", ".", "t", "x", "t">>,
      <<".", ".", "/", "x", ".", "z", "i", "p">>,
      <<"/", "x", ".", "z", "i", "p">> }

-----------------------------------------------------------------------------
(* tempfile: names are unique because they are numbered. *)

Digits == <<"0", "1", "2", "3", "4", "5", "6", "7", "8", "9">>

RECURSIVE Pad(_, _)
Pad(n, w) == IF w = 0 THEN <<>> ELSE Pad(n \div 10, w - 1) \o <<Digits[(n % 10) + 1]>>

TempFileName(n) == <<"/", "t", "m", "p", "/", "t">> \o Pad(n, 1) \o DotZip
TempDirName(n) == <<"/", "t", "m", "p", "/", "d">> \o Pad(n, 1)

-----------------------------------------------------------------------------
(* open(tex_file_path, "r", encoding="utf-8").read(): the strict UTF-8     *)
(* decoder accepts exactly the well-formed byte sequences.                 *)

IsCont(b) == b >= 128 /\ b <= 191

RECURSIVE Utf8Valid(_)
Utf8Valid(b) ==
    IF b = <<>> THEN TRUE
    ELSE LET h == Head(b)
             n == Len(b)
         IN IF h < 128 THEN Utf8Valid(Tail(b))
            ELSE IF h >= 194 /\ h <= 223
                 THEN n >= 2 /\ IsCont(b[2]) /\ Utf8Valid(SubSeq(b, 3, n))
            ELSE IF h >= 224 /\ h <= 239
                 THEN /\ n >= 3 /\ IsCont(b[2]) /\ IsCont(b[3])
                      /\ (h = 224 => b[2] >= 160)
                      /\ (h = 237 => b[2] <= 159)
                      /\ Utf8Valid(SubSeq(b, 4, n))
            ELSE IF h >= 240 /\ h <= 244
                 THEN /\ n >= 4 /\ IsCont(b[2]) /\ IsCont(b[3]) /\ IsCont(b[4])
                      /\ (h = 240 => b[2] >= 144)
                      /\ (h = 244 => b[2] <= 143)
                      /\ Utf8Valid(SubSeq(b, 5, n))
            ELSE FALSE

-----------------------------------------------------------------------------
(* The extracted tree *)

WalkOrder == <<".", "sub">>     \* os.walk is top-down: the root comes first

EntryName == "main.tex"
PdfName == "main.pdf"           \* basename of os.path.join(tmpdirname, "main") + ".pdf"

ListFiles(tree) == {<<f.dir, f.name>> : f \in tree}

FindMainTex_AnyCase(tree) ==
    LET hits == {i \in 1..Len(WalkOrder) :
                    \E f \in tree : f.dir = WalkOrder[i] /\ f.name \in {"main.tex", "Main.tex"}}
    IN IF hits = {} THEN None
       ELSE LET i == CHOOSE k \in hits : \A j \in hits : k <= j
                f == CHOOSE g \in tree : g.dir = WalkOrder[i] /\ g.name \in {"main.tex", "Main.tex"}
            IN Some(<<f.dir, f.name>>)

(* for root, _, files in os.walk(tmpdirname): if "main.tex" in files: ... break *)
FindMainTex(tree) ==
    LET hits == {i \in 1..Len(WalkOrder) :
                    \E f \in tree : f.dir = WalkOrder[i] /\ f.name = EntryName}
    IN IF hits = {} THEN None
       ELSE Some(<<WalkOrder[CHOOSE k \in hits : \A j \in hits : k <= j], EntryName>>)

HasFile(tree, path) == \E f \in tree : f.dir = path[1] /\ f.name = path[2]
ReadFile(tree, path) == (CHOOSE f \in tree : f.dir = path[1] /\ f.name = path[2]).data

(* pdflatex writing main.pdf into -output-directory *)
WritePdf(tree) ==
    {f \in tree : ~(f.dir = "." /\ f.name = PdfName)} \cup {File(".", PdfName, PdfMagic)}

-----------------------------------------------------------------------------
(* The outcomes subprocess.run can have once the child was started.        *)

ProcResults ==
    [kind : {"completed"}, returncode : {0, 1}, wrote : BOOLEAN,
     stdout : {<<"o">>}, stderr : {<<>>, <<"e">>}]
    \cup
    [kind : {"timeout"}, returncode : {0}, wrote : BOOLEAN,
     stdout : {<<>>}, stderr : {<<>>}]

IsSuccess_PdfOnly(returncode, pdf_exists) == pdf_exists

(* if process.returncode == 0 and os.path.exists(pdf_file_path) *)
IsSuccess(returncode, pdf_exists) == returncode = 0 /\ pdf_exists

(* datetime.now().strftime('%Y%m%d_%H%M%S') *)
Clocks == { [Y |-> 2024, M |-> 1, D |-> 9, h |-> 7, m |-> 5, s |-> 3],
            [Y |-> 2025, M |-> 12, D |-> 31, h |-> 23, m |-> 59, s |-> 59] }

Strftime(t) ==
    Pad(t.Y, 4) \o Pad(t.M, 2) \o Pad(t.D, 2) \o <<"_">> \o Pad(t.h, 2) \o Pad(t.m, 2) \o Pad(t.s, 2)

CompiledPrefix == <<"c", "o", "m", "p", "i", "l", "e", "d", "_", "m", "a", "i", "n", "_">>

PdfFilename(t) == CompiledPrefix \o Strftime(t) \o DotPdf

-----------------------------------------------------------------------------
(* Exception handlers: the message each except clause shows.               *)

InnerHandler_TimeoutAsGeneric(e) == "err_pdflatex"

(* except subprocess.TimeoutExpired / except Exception as pdflatex_error *)
InnerHandler(e) == IF e = "TimeoutExpired" THEN "err_timeout" ELSE "err_pdflatex"

OuterHandler_NoBadZipClause(e) ==
    IF e = "PermissionError" THEN "err_permission" ELSE "err_generic"

(* except zipfile.BadZipFile / except PermissionError / except Exception *)
OuterHandler(e) ==
    IF e = "BadZipFile" THEN "err_bad_zip"
    ELSE IF e = "PermissionError" THEN "err_permission"
    ELSE "err_generic"

-----------------------------------------------------------------------------
(* Initial state: the disk holds the files next to the script and one     *)
(* archive outside the script directory; the script is about to run.      *)

Init ==
    /\ pc = "tab1"
    /\ \E a \in LocalArchives :
          fs = [p \in {AdjacentZip, AdjacentTxt, OutsideZip} |->
                   IF p = AdjacentZip THEN a
                   ELSE IF p = OutsideZip THEN Zip({File(".", "main.tex", <<65>>)})
                   ELSE NotAZip]
    /\ dirs = <<>>
    /\ ntemp = 0
    /\ uploaded_zip = None
    /\ zip_filename_input = <<>>
    /\ button = FALSE
    /\ zip_path = None
    /\ request = None
    /\ tmp_zip = None
    /\ tmpdirname = None
    /\ bound = {}
    /\ extracted_files = {}
    /\ tex_file_path = None
    /\ tex_content = None
    /\ child = "none"
    /\ process = None
    /\ exc = "none"
    /\ msgs = <<>>
    /\ pdf_data = None
    /\ pdf_filename = None
    /\ log_area = None
    /\ invocations = 0

(* Lines 25-32: the upload tab. *)
Tab1 ==
    /\ pc = "tab1"
    /\ \E u \in {None} \cup {Some(a) : a \in Uploads} :
          /\ uploaded_zip' = u
          /\ IF u # None
             THEN /\ fs' = (Resolve(TempFileName(ntemp)) :> u[1]) @@ fs
                  /\ tmp_zip' = Some(TempFileName(ntemp))
                  /\ zip_path' = Some(TempFileName(ntemp))
                  /\ ntemp' = ntemp + 1
             ELSE UNCHANGED <<fs, tmp_zip, zip_path, ntemp>>
    /\ pc' = "tab2"
    /\ UNCHANGED <<request, dirs, zip_filename_input, button, tmpdirname, bound,
                   extracted_files, tex_file_path, tex_content, child, process,
                   exc, msgs, pdf_data, pdf_filename, log_area, invocations>>

(* Lines 34-44: the adjacent-file tab. *)
Tab2 ==
    /\ pc = "tab2"
    /\ \E s \in FilenameInputs :
          /\ zip_filename_input' = s
          /\ IF s = <<>>
             THEN UNCHANGED <<zip_path, msgs>>
             ELSE LET local_zip_path == Join(script_dir, s) IN
                  IF Exists(fs, local_zip_path) /\ EndsWith(s, DotZip)
                  THEN zip_path' = Some(local_zip_path) /\ UNCHANGED msgs
                  ELSE msgs' = Append(msgs, "err_zip_not_found") /\ UNCHANGED zip_path
    /\ pc' = "button"
    /\ UNCHANGED <<request, fs, dirs, ntemp, uploaded_zip, button, tmp_zip, tmpdirname,
                   bound, extracted_files, tex_file_path, tex_content, child,
                   process, exc, pdf_data, pdf_filename, log_area, invocations>>

(* Line 47 and the entry of the with-block on line 50.  st.button is only *)
(* evaluated when an archive was selected.                                 *)
CompileButton ==
    /\ pc = "button"
    /\ \E b \in BOOLEAN :
          /\ button' = (zip_path # None /\ b)
          /\ IF zip_path # None /\ b
             THEN /\ request' = Some(fs[Resolve(zip_path[1])])
                  /\ tmpdirname' = Some(TempDirName(ntemp))
                  /\ dirs' = (TempDirName(ntemp) :> {}) @@ dirs
                  /\ ntemp' = ntemp + 1
                  /\ pc' = "extract"
             ELSE /\ UNCHANGED <<request, tmpdirname, dirs, ntemp>>
                  /\ pc' = "end"
    /\ UNCHANGED <<fs, uploaded_zip, zip_filename_input, zip_path, tmp_zip,
                   bound, extracted_files, tex_file_path, tex_content, child,
                   process, exc, msgs, pdf_data, pdf_filename, log_area, invocations>>

(* Lines 52-53: zipfile.ZipFile(zip_path, "r") and extractall. *)
Extract ==
    /\ pc = "extract"
    /\ LET archive == fs[Resolve(zip_path[1])] IN
          IF archive.kind = "zip"
          THEN /\ dirs' = [dirs EXCEPT ![tmpdirname[1]] = archive.tree]
               /\ pc' = "list"
               /\ UNCHANGED exc
          ELSE /\ exc' = (IF archive.kind = "bad" THEN "BadZipFile" ELSE "PermissionError")
               /\ pc' = "exit_with"
               /\ UNCHANGED dirs
    /\ UNCHANGED <<request, fs, ntemp, uploaded_zip, zip_filename_input, button, zip_path,
                   tmp_zip, tmpdirname, bound, extracted_files, tex_file_path,
                   tex_content, child, process, msgs, pdf_data, pdf_filename,
                   log_area, invocations>>

(* Lines 56-63: list what was extracted. *)
ListExtracted ==
    /\ pc = "list"
    /\ extracted_files' = ListFiles(dirs[tmpdirname[1]])
    /\ bound' = bound \cup {"extracted_files"}
    /\ msgs' = Append(msgs, IF ListFiles(dirs[tmpdirname[1]]) # {}
                            THEN "write_extracted" ELSE "err_no_files")
    /\ pc' = "search"
    /\ UNCHANGED <<request, fs, dirs, ntemp, uploaded_zip, zip_filename_input, button,
                   zip_path, request, tmp_zip, tmpdirname, tex_file_path, tex_content, child,
                   process, exc, pdf_data, pdf_filename, log_area, invocations>>

(* Lines 66-72: search for main.tex. *)
SearchMainTex ==
    /\ pc = "search"
    /\ tex_file_path' = FindMainTex(dirs[tmpdirname[1]])
    /\ bound' = bound \cup {"tex_file_path"}
    /\ IF FindMainTex(dirs[tmpdirname[1]]) = None
       THEN /\ msgs' = Append(msgs, "err_entry_not_found")
            /\ pc' = "exit_with"
       ELSE /\ pc' = "read"
            /\ UNCHANGED msgs
    /\ UNCHANGED <<request, fs, dirs, ntemp, uploaded_zip, zip_filename_input, button,
                   zip_path, request, tmp_zip, tmpdirname, extracted_files, tex_content, child,
                   process, exc, pdf_data, pdf_filename, log_area, invocations>>

(* Lines 75-77: read main.tex as UTF-8 text and show it. *)
ReadMainTex ==
    /\ pc = "read"
    /\ LET raw == ReadFile(dirs[tmpdirname[1]], tex_file_path[1]) IN
          IF Utf8Valid(raw)
          THEN /\ tex_content' = Some(raw)
               /\ bound' = bound \cup {"tex_content"}
               /\ msgs' = Append(msgs, "write_content")
               /\ pc' = "start"
               /\ UNCHANGED exc
          ELSE /\ exc' = "UnicodeDecodeError"
               /\ pc' = "exit_with"
               /\ UNCHANGED <<tex_content, bound, msgs>>
    /\ UNCHANGED <<request, fs, dirs, ntemp, uploaded_zip, zip_filename_input, button,
                   zip_path, request, tmp_zip, tmpdirname, extracted_files, tex_file_path, child,
                   process, pdf_data, pdf_filename, log_area, invocations>>

(* Lines 82-89: build the PyLaTeX document (no effect on the disk) and    *)
(* have subprocess.run start pdflatex; the start fails when the binary    *)
(* cannot be executed.                                                     *)
StartPdflatex ==
    /\ pc = "start"
    /\ invocations' = invocations + 1
    /\ \E started \in BOOLEAN :
          IF started
          THEN child' = "running" /\ pc' = "wait" /\ UNCHANGED exc
          ELSE exc' = "FileNotFoundError" /\ pc' = "inner_except" /\ UNCHANGED child
    /\ UNCHANGED <<request, fs, dirs, ntemp, uploaded_zip, zip_filename_input, button,
                   zip_path, request, tmp_zip, tmpdirname, bound, extracted_files, tex_file_path,
                   tex_content, process, msgs, pdf_data, pdf_filename, log_area>>

(* Lines 88-93: subprocess.run waits up to 60 seconds; on expiry it kills *)
(* the child and raises TimeoutExpired.                                    *)
WaitPdflatex ==
    /\ pc = "wait"
    /\ \E r \in ProcResults :
          /\ dirs' = IF r.wrote
                     THEN [dirs EXCEPT ![tmpdirname[1]] = WritePdf(@)]
                     ELSE dirs
          /\ IF r.kind = "completed"
             THEN /\ child' = "exited"
                  /\ process' = Some([returncode |-> r.returncode,
                                      stdout |-> r.stdout, stderr |-> r.stderr])
                  /\ bound' = bound \cup {"process"}
                  /\ pc' = "classify"
                  /\ UNCHANGED exc
             ELSE /\ child' = "killed"
                  /\ exc' = "TimeoutExpired"
                  /\ pc' = "inner_except"
                  /\ UNCHANGED <<process, bound>>
    /\ UNCHANGED <<request, fs, ntemp, uploaded_zip, zip_filename_input, button,
                   zip_path, request, tmp_zip, tmpdirname, extracted_files, tex_file_path,
                   tex_content, msgs, pdf_data, pdf_filename, log_area, invocations>>

(* Lines 94-124: classify the result and show the PDF or the log. *)
Classify ==
    /\ pc = "classify"
    /\ LET tree == dirs[tmpdirname[1]]
           pdf_file_path == <<".", PdfName>>
       IN IF IsSuccess(process[1].returncode, HasFile(tree, pdf_file_path))
          THEN /\ pdf_data' = Some(ReadFile(tree, pdf_file_path))
               /\ \E now \in Clocks : pdf_filename' = Some(PdfFilename(now))
               /\ msgs' = msgs \o <<"success", "download_button", "pdf_preview">>
               /\ UNCHANGED log_area
          ELSE /\ msgs' = msgs \o <<"err_pdf_failed", "log_text_area">>
               /\ log_area' = Some(process[1].stdout \o process[1].stderr)
               /\ UNCHANGED <<pdf_data, pdf_filename>>
    /\ pc' = "exit_with"
    /\ UNCHANGED <<request, fs, dirs, ntemp, uploaded_zip, zip_filename_input, button,
                   zip_path, request, tmp_zip, tmpdirname, bound, extracted_files, tex_file_path,
                   tex_content, child, process, exc, invocations>>

(* Lines 126-130: the handlers around subprocess.run. *)
InnerExcept ==
    /\ pc = "inner_except"
    /\ msgs' = Append(msgs, InnerHandler(exc))
    /\ exc' = "none"
    /\ pc' = "exit_with"
    /\ UNCHANGED <<request, fs, dirs, ntemp, uploaded_zip, zip_filename_input, button,
                   zip_path, request, tmp_zip, tmpdirname, bound, extracted_files, tex_file_path,
                   tex_content, child, process, pdf_data, pdf_filename, log_area,
                   invocations>>

(* TemporaryDirectory.__exit__: shutil.rmtree of the directory. *)
Cleanup(ds, name) == RemoveKey(ds, name)

(* Leaving the with-block of line 50, normally or with an exception. *)
ExitWith ==
    /\ pc = "exit_with"
    /\ dirs' = Cleanup(dirs, tmpdirname[1])
    /\ pc' = IF exc = "none" THEN "finally" ELSE "outer_except"
    /\ UNCHANGED <<request, fs, ntemp, uploaded_zip, zip_filename_input, button, zip_path,
                   tmp_zip, tmpdirname, bound, extracted_files, tex_file_path,
                   tex_content, child, process, exc, msgs, pdf_data, pdf_filename,
                   log_area, invocations>>

(* Lines 136-141: the outer handlers. *)
OuterExcept ==
    /\ pc = "outer_except"
    /\ msgs' = Append(msgs, OuterHandler(exc))
    /\ exc' = "none"
    /\ pc' = "finally"
    /\ UNCHANGED <<request, fs, dirs, ntemp, uploaded_zip, zip_filename_input, button,
                   zip_path, request, tmp_zip, tmpdirname, bound, extracted_files, tex_file_path,
                   tex_content, child, process, pdf_data, pdf_filename, log_area,
                   invocations>>

(* Lines 142-145: the finally clause. *)
Finally ==
    /\ pc = "finally"
    /\ fs' = IF uploaded_zip # None /\ zip_path # None /\ Exists(fs, zip_path[1])
             THEN RemoveKey(fs, Resolve(zip_path[1]))
             ELSE fs
    /\ pc' = "end"
    /\ UNCHANGED <<request, dirs, ntemp, uploaded_zip, zip_filename_input, button, zip_path,
                   tmp_zip, tmpdirname, bound, extracted_files, tex_file_path,
                   tex_content, child, process, exc, msgs, pdf_data, pdf_filename,
                   log_area, invocations>>

Next ==
    \/ Tab1
    \/ Tab2
    \/ CompileButton
    \/ Extract
    \/ ListExtracted
    \/ SearchMainTex
    \/ ReadMainTex
    \/ StartPdflatex
    \/ WaitPdflatex
    \/ Classify
    \/ InnerExcept
    \/ ExitWith
    \/ OuterExcept
    \/ Finally

Spec == Init /\ [][Next]_vars

TypeOK ==
    /\ pc \in {"tab1", "tab2", "button", "extract", "list", "search", "read", "start",
               "wait", "classify", "inner_except", "exit_with", "outer_except",
               "finally", "end"}

-----------------------------------------------------------------------------
(* Properties *)

Last(q) == q[Len(q)]
Shown(m) == \E i \in 1..Len(msgs) : msgs[i] = m

Requested == button                     \* this run is a compile request
Finished == pc = "end" /\ button        \* ... and it has completed

WorkDirGone == tmpdirname # None /\ tmpdirname[1] \notin DOMAIN dirs
RootPdf == <<".", PdfName>>
HasEntry(tree) == \E f \in tree : f.name = EntryName

IsDigit(c) == \E i \in 1..10 : Digits[i] = c

(* compiled_main_<YYYYMMDD_HHMMSS>.pdf *)
IsTimestampedName(s) ==
    /\ Len(s) = Len(CompiledPrefix) + 15 + Len(DotPdf)
    /\ SubSeq(s, 1, Len(CompiledPrefix)) = CompiledPrefix
    /\ EndsWith(s, DotPdf)
    /\ \A i \in 1..15 :
          LET c == s[Len(CompiledPrefix) + i]
          IN IF i = 9 THEN c = "_" ELSE IsDigit(c)

InsideScriptDir(s) ==
    LET p == Resolve(s) IN p # NoEntry /\ Len(p) >= 2 /\ SubSeq(p, 1, 1) = Resolve(script_dir)

(* C1: after a compile request has finished, whatever its outcome and      *)
(* whichever intake sources were given, the temporary file written for the *)
(* upload and the working directory of the request are gone from the disk. *)
C1_CleanupAfterRequest ==
    Finished =>
        /\ (tmp_zip # None => ~Exists(fs, tmp_zip[1]))
        /\ WorkDirGone

(* C2: once pdflatex has terminated normally, the request is a success     *)
(* exactly when the exit code is 0 and main.pdf exists in the working      *)
(* directory; otherwise it is a compiler failure that shows stdout+stderr, *)
(* and never a success.                                                    *)
C2_Classification ==
    (pc = "exit_with" /\ process # None) =>
        LET ok == process[1].returncode = 0 /\ HasFile(dirs[tmpdirname[1]], RootPdf)
        IN /\ ok <=> Shown("success")
           /\ ok => /\ pdf_data = Some(ReadFile(dirs[tmpdirname[1]], RootPdf))
                    /\ log_area = None
                    /\ ~Shown("err_pdf_failed")
           /\ ~ok => /\ Last(msgs) = "log_text_area"
                     /\ Shown("err_pdf_failed")
                     /\ log_area = Some(process[1].stdout \o process[1].stderr)
                     /\ pdf_data = None

C2_Witness ==
    /\ pc = "exit_with"
    /\ process # None
    /\ process[1].returncode = 0
    /\ ~HasFile(dirs[tmpdirname[1]], RootPdf)
    /\ Shown("err_pdf_failed")
    /\ log_area = Some(<<"o", "e">>)

(* C3: for a valid zip archive with a main.tex somewhere in its tree,      *)
(* whatever bytes it holds, the request reaches the compiler invocation,   *)
(* and when the compiler exits 0 and main.pdf is there the request is a    *)
(* success with non-empty PDF bytes and a compiled_main_<timestamp>.pdf    *)
(* name.                                                                   *)
C3_ValidArchiveSucceeds ==
    /\ (Finished /\ request[1].kind = "zip" /\ HasEntry(request[1].tree)) =>
           invocations = 1
    /\ (pc = "exit_with" /\ process # None /\ process[1].returncode = 0
           /\ HasFile(dirs[tmpdirname[1]], RootPdf)) =>
           /\ Shown("success")
           /\ pdf_data # None /\ pdf_data[1] # <<>>
           /\ pdf_filename # None /\ IsTimestampedName(pdf_filename[1])

(* C4: for an archive whose extracted tree has no file named exactly       *)
(* main.tex, the compiler is never invoked during the request and the      *)
(* request ends with the "main.tex not found" error.                       *)
C4_NoEntryNoInvocation ==
    (Requested /\ request[1].kind = "zip" /\ ~HasEntry(request[1].tree)) =>
        /\ invocations = 0
        /\ child = "none"
        /\ pc \notin {"read", "start", "wait", "classify", "inner_except"}
        /\ pc = "end" => /\ msgs # <<>>
                         /\ Last(msgs) = "err_entry_not_found"
                         /\ tex_file_path = None
                         /\ ~Shown("success")

C4_Witness ==
    /\ Finished
    /\ request[1].kind = "zip"
    /\ \E f \in request[1].tree : f.name = "Main.tex"
    /\ ~HasEntry(request[1].tree)
    /\ Last(msgs) = "err_entry_not_found"
    /\ invocations = 0

(* C5: when a valid archive extracts to zero files, the request ends with  *)
(* the empty-extraction error alone: the search for main.tex is not        *)
(* performed and no second error is reported.                              *)
C5_EmptyExtractionStops ==
    (Finished /\ request[1].kind = "zip" /\ request[1].tree = {}) =>
        /\ Last(msgs) = "err_no_files"
        /\ "tex_file_path" \notin bound
        /\ ~Shown("err_entry_not_found")

(* C6: when pdflatex exceeds the time budget the child is killed, the      *)
(* request ends with the timeout error (neither a compiler failure nor a   *)
(* success, also when a main.pdf was already there), and the working       *)
(* directory is removed when the request completes.                        *)
C6_Timeout ==
    /\ exc = "TimeoutExpired" => child = "killed"
    /\ (child = "killed" /\ pc \in {"exit_with", "finally", "end"}) =>
           /\ Last(msgs) = "err_timeout"
           /\ ~Shown("success")
           /\ ~Shown("err_pdf_failed")
           /\ pdf_data = None /\ log_area = None /\ process = None
    /\ (child = "killed" /\ pc \in {"finally", "end"}) => WorkDirGone /\ DOMAIN dirs = {}

C6_Witness ==
    /\ Finished
    /\ child = "killed"
    /\ Last(msgs) = "err_timeout"
    /\ WorkDirGone

(* C7: for an archive that is not a zip container the request ends with    *)
(* the invalid-archive error, nothing after the extraction step runs (no   *)
(* listing, no search for main.tex, no compiler), and the working          *)
(* directory created for the request is removed before the request ends.   *)
C7_BadArchive ==
    (Requested /\ request[1].kind = "bad") =>
        /\ bound = {}
        /\ invocations = 0
        /\ child = "none"
        /\ pc \in {"extract", "exit_with", "outer_except", "finally", "end"}
        /\ pc \in {"finally", "end"} =>
              /\ Last(msgs) = "err_bad_zip"
              /\ WorkDirGone
              /\ DOMAIN dirs = {}

C7_Witness ==
    /\ Finished
    /\ request[1].kind = "bad"
    /\ Last(msgs) = "err_bad_zip"
    /\ WorkDirGone

(* C8: whenever an upload is present, the archive handed to extraction is  *)
(* the temporary file holding the upload, whether or not a file name was   *)
(* typed as well.                                                          *)
C8_UploadPrecedence ==
    (pc = "extract" /\ uploaded_zip # None) => zip_path = tmp_zip

(* C9: a typed file name is taken as the archive only if it ends in .zip   *)
(* and names an existing file inside the script directory; a name that     *)
(* resolves outside it is rejected with the not-found error.               *)
C9_FilenameContainment ==
    (pc = "button" /\ zip_filename_input # <<>>) =>
        LET local_zip_path == Join(script_dir, zip_filename_input)
        IN /\ zip_path = Some(local_zip_path) =>
                 /\ EndsWith(zip_filename_input, DotZip)
                 /\ Exists(fs, local_zip_path)
                 /\ InsideScriptDir(local_zip_path)
           /\ ~InsideScriptDir(local_zip_path) =>
                 /\ Shown("err_zip_not_found")
                 /\ zip_path # Some(local_zip_path)

(* C10: the files that were on disk before the run (the archives the user  *)
(* can name) are still there in every state of the run.                    *)
C10_LocalArchiveKept ==
    \A p \in {AdjacentZip, AdjacentTxt, OutsideZip} : p \in DOMAIN fs

====
